---- MODULE Spec2Model ----
(***************************************************************************)
(* StreamClient of the multipath latency analyzer: the run controller      *)
(* (Start/Stop), the send scheduler (TimerCallback/SendDatagrams), the     *)
(* completion pipeline (SendCompletion/ReceiveCompletion), the latency     *)
(* array and the secondary-interface handler.                              *)
(***************************************************************************)
EXTENDS Integers, Sequences, FiniteSets, TLC

\* ---------------------------------------------------------------- bounds
MaxFinal == 2       \* Start is not called when it would plan past this final sequence number
MaxEvents == 2      \* events from outside: calls of Start and Stop, frames received,
                    \* network status notifications

\* ------------------------------------------------------------- constants
c_datagramSequenceNumberLength == 8
c_datagramTimestampLength == 8
c_datagramHeaderLength == c_datagramSequenceNumberLength + 2 * c_datagramTimestampLength
c_bufferSize == 1024
Unset == 0

Interfaces == {"Primary", "Secondary"}
\* microsecond clock values; only their identity matters here
SendTimestamps == {1}
EchoedSendTimestamps == {2}
EchoTimestamps == {2}
ReceiveTimestamps == {3}
NullGuid == 0
PrimaryGuids == {1, 2}
\* the secondary wlan interface that belongs to a primary interface
SecondaryOf(primaryGuid) == 10 + primaryGuid
BitRates == {8 * c_bufferSize, 12 * c_bufferSize}
Durations == 0 .. MaxFinal + 1
FrameRates == {1, 2}
CompletedBytes == {c_datagramHeaderLength - 1, c_datagramHeaderLength, c_bufferSize}
ReceivedSequenceNumbers == -1 .. MaxFinal
SetupOutcomes == {"ok", "notConnected", "otherFailure"}

VARIABLES
    m_running,                \* std::atomic<bool> m_running
    m_frameRate,
    m_finalSequenceNumber,
    m_sequenceNumber,
    m_latencyData,            \* function 0 .. size-1 -> LatencyData
    m_primaryState,           \* MeasuredSocket of the primary path
    m_secondaryState,         \* MeasuredSocket of the secondary path
    m_primaryCorruptFrames,
    m_secondaryCorruptFrames,
    m_wlanHandle,             \* TRUE once RequestSecondaryWlanConnection opened it
    subscribed,               \* m_networkInformationEventRevoker holds a subscription
    notifyPc,                 \* "raised": a NetworkStatusChanged handler was invoked and has not run yet
    primaryInterfaceGuid,     \* captured by updateSecondaryInterfaceStatus
    secondaryInterfaceGuid,   \* captured by updateSecondaryInterfaceStatus
    timerScheduled,           \* m_threadpoolTimer is armed
    completeEvent,            \* m_completeEvent is signaled
    failFast,                 \* the process was terminated by a FAIL_FAST
    callerPc,                 \* position of the thread calling Start/Stop
    callerArgs,               \* arguments of the Start in progress / last Start
    tickPc,                   \* position of the timer callback
    tickI,                    \* loop variable i of TimerCallback
    pendingSends,             \* sends issued whose completion has not run yet
    hist                      \* observations that are not program state

vars == <<m_running, m_frameRate, m_finalSequenceNumber, m_sequenceNumber, m_latencyData,
          m_primaryState, m_secondaryState, m_primaryCorruptFrames, m_secondaryCorruptFrames,
          m_wlanHandle, subscribed, notifyPc, primaryInterfaceGuid, secondaryInterfaceGuid,
          timerScheduled, completeEvent, failFast, callerPc, callerArgs, tickPc, tickI,
          pendingSends, hist>>

\* ------------------------------------------------------------ pure parts
CalculateNumberOfDatagramToSend(duration, bitRate, datagramSize) ==
    LET byteRate == bitRate \div 8
    IN (duration * byteRate) \div datagramSize

\* the length check rejecting a frame that is exactly one header long
ValidateBufferLength_Strict(completedBytes) ==
    ~(completedBytes <= c_datagramHeaderLength)

ValidateBufferLength(completedBytes) ==
    ~(completedBytes < c_datagramHeaderLength)

LatencyData ==
    [m_primarySendTimestamp |-> Unset, m_primaryEchoTimestamp |-> Unset,
     m_primaryReceiveTimestamp |-> Unset, m_secondarySendTimestamp |-> Unset,
     m_secondaryEchoTimestamp |-> Unset, m_secondaryReceiveTimestamp |-> Unset]

\* std::vector<LatencyData>::resize(n): keeps the first n elements, value-initializes the rest
Resize(data, n) ==
    [i \in 0 .. n - 1 |-> IF i \in DOMAIN data THEN data[i] ELSE LatencyData]

MeasuredSocket ==
    [m_adapterStatus |-> "Disabled", m_socket |-> FALSE, m_receivePosted |-> FALSE,
     m_corruptFrames |-> 0, m_interfaceGuid |-> NullGuid]

\* MeasuredSocket::Setup: opens a new socket, bound to the interface when one is given;
\* no receive is posted on it yet
Setup(state, interfaceGuid) ==
    [state EXCEPT !.m_socket = TRUE, !.m_interfaceGuid = interfaceGuid,
                  !.m_receivePosted = FALSE]

\* MeasuredSocket::PrepareToReceive: posts the receive buffers
PrepareToReceive(state) ==
    [state EXCEPT !.m_receivePosted = TRUE]

\* MeasuredSocket::Cancel: closes the socket; the path is unusable afterwards
Cancel(state) ==
    [state EXCEPT !.m_adapterStatus = "Disabled", !.m_socket = FALSE]


\* the range check without its lower bound
SequenceNumberOutOfRange_NoLowerBound(sequenceNumber, finalSequenceNumber) ==
    sequenceNumber >= finalSequenceNumber

\* the range check with its upper bound one too far
SequenceNumberOutOfRange_UpperOffByOne(sequenceNumber, finalSequenceNumber) ==
    sequenceNumber < 0 \/ sequenceNumber > finalSequenceNumber

\* line 259: the range check of ReceiveCompletion
SequenceNumberOutOfRange(sequenceNumber, finalSequenceNumber) ==
    sequenceNumber < 0 \/ sequenceNumber >= finalSequenceNumber

\* lines 247-254: the field a send completion writes
SendCompletionWrite(stat, interface, sendTimestamp) ==
    IF interface = "Primary"
    THEN [stat EXCEPT !.m_primarySendTimestamp = sendTimestamp]
    ELSE [stat EXCEPT !.m_secondarySendTimestamp = sendTimestamp]

\* lines 274-285: the fields a receive completion writes
ReceiveCompletionWrite(stat, interface, result) ==
    IF interface = "Primary"
    THEN [stat EXCEPT !.m_primarySendTimestamp = result.m_sendTimestamp,
                      !.m_primaryEchoTimestamp = result.m_echoTimestamp,
                      !.m_primaryReceiveTimestamp = result.m_receiveTimestamp]
    ELSE [stat EXCEPT !.m_secondarySendTimestamp = result.m_sendTimestamp,
                      !.m_secondaryEchoTimestamp = result.m_echoTimestamp,
                      !.m_secondaryReceiveTimestamp = result.m_receiveTimestamp]

\* what the network can hand to a receive completion
ReceiveResults ==
    [m_sequenceNumber : ReceivedSequenceNumbers, m_sendTimestamp : EchoedSendTimestamps,
     m_echoTimestamp : EchoTimestamps, m_receiveTimestamp : ReceiveTimestamps]

\* a callback that goes on whatever it reads
CallbackProceeds_Always(running) ==
    TRUE

\* lines 206-209: TimerCallback goes on when it reads m_running set
CallbackProceeds(running) ==
    running

\* the loop condition that lets the sequence number reach one past the final one
LoopCondition_Inclusive(i, frameRate, sequenceNumber, finalSequenceNumber) ==
    i < frameRate /\ sequenceNumber <= finalSequenceNumber

\* the loop condition without its bound on the sequence number
LoopCondition_IgnoresFinal(i, frameRate, sequenceNumber, finalSequenceNumber) ==
    i < frameRate

\* line 211: the loop condition of TimerCallback
LoopCondition(i, frameRate, sequenceNumber, finalSequenceNumber) ==
    i < frameRate /\ sequenceNumber < finalSequenceNumber

\* line 217: TimerCallback requeues the timer
RequeueCondition(sequenceNumber, finalSequenceNumber) ==
    sequenceNumber < finalSequenceNumber

\* line 233: SendDatagrams uses the secondary path
SecondaryInUse(secondaryState) ==
    secondaryState.m_adapterStatus = "Ready"

\* a sequence number that stays when the frame went out on both paths
NextSequenceNumber_HeldWhenBoth(sequenceNumber, secondaryState) ==
    IF secondaryState.m_adapterStatus = "Ready" THEN sequenceNumber ELSE sequenceNumber + 1

\* a sequence number advancing once per path sent on
NextSequenceNumber_PerPath(sequenceNumber, secondaryState) ==
    sequenceNumber + (IF secondaryState.m_adapterStatus = "Ready" THEN 2 ELSE 1)

\* line 239: the sequence number after one SendDatagrams
NextSequenceNumber(sequenceNumber, secondaryState) ==
    sequenceNumber + 1

\* the change of primary that leaves the socket of a Ready secondary open
UpdateTearDown_NoCancel(c, connectedInterfaceGuid, secondaryAvailable) ==
    IF connectedInterfaceGuid # c.primaryGuid
    THEN IF secondaryAvailable
         THEN [c EXCEPT !.primaryGuid = connectedInterfaceGuid,
                        !.secondaryGuid = SecondaryOf(connectedInterfaceGuid),
                        !.state = [c.state EXCEPT !.m_adapterStatus = "Connecting"]]
         ELSE [c EXCEPT !.primaryGuid = connectedInterfaceGuid]
    ELSE c

\* lines 60-120: updateSecondaryInterfaceStatus on the captured state
\* c = [state, primaryGuid, secondaryGuid, failFast]
UpdateTearDown(c, connectedInterfaceGuid, secondaryAvailable) ==
    IF connectedInterfaceGuid # c.primaryGuid
    THEN LET removed == IF c.state.m_adapterStatus = "Ready" THEN Cancel(c.state) ELSE c.state
         IN IF secondaryAvailable
            THEN [c EXCEPT !.primaryGuid = connectedInterfaceGuid,
                           !.secondaryGuid = SecondaryOf(connectedInterfaceGuid),
                           !.state = [removed EXCEPT !.m_adapterStatus = "Connecting"]]
            ELSE [c EXCEPT !.primaryGuid = connectedInterfaceGuid, !.state = removed]
    ELSE c

\* the connection attempt that keeps the socket of an unreachable secondary open
UpdateConnect_NoDemote(c, adapterConnected, outcome) ==
    IF c.state.m_adapterStatus = "Connecting" /\ adapterConnected
    THEN CASE outcome = "ok" ->
                [c EXCEPT !.state = [PrepareToReceive(Setup(c.state, c.secondaryGuid))
                                        EXCEPT !.m_adapterStatus = "Ready"]]
           [] outcome = "notConnected" ->
                [c EXCEPT !.state = Setup(c.state, c.secondaryGuid)]
           [] OTHER -> [c EXCEPT !.failFast = TRUE]
    ELSE c

UpdateConnect(c, adapterConnected, outcome) ==
    IF c.state.m_adapterStatus = "Connecting" /\ adapterConnected
    THEN CASE outcome = "ok" ->
                [c EXCEPT !.state = [PrepareToReceive(Setup(c.state, c.secondaryGuid))
                                        EXCEPT !.m_adapterStatus = "Ready"]]
           [] outcome = "notConnected" ->
                [c EXCEPT !.state = [Cancel(Setup(c.state, c.secondaryGuid))
                                        EXCEPT !.m_adapterStatus = "Connecting"]]
           [] OTHER -> [c EXCEPT !.failFast = TRUE]
    ELSE c

updateSecondaryInterfaceStatus(c, connectedInterfaceGuid, secondaryAvailable, adapterConnected, outcome) ==
    UpdateConnect(UpdateTearDown(c, connectedInterfaceGuid, secondaryAvailable), adapterConnected, outcome)

\* ------------------------------------------------------------------ state
NoArgs == [bitRate |-> 0, frameRate |-> 0, duration |-> 0]

Init ==
    /\ m_running = FALSE
    /\ m_frameRate = 0
    /\ m_finalSequenceNumber = -1
    /\ m_sequenceNumber = 0
    /\ m_latencyData = Resize(<<>>, 0)
    /\ m_primaryState = MeasuredSocket
    /\ m_secondaryState = MeasuredSocket
    /\ m_primaryCorruptFrames = 0
    /\ m_secondaryCorruptFrames = 0
    /\ m_wlanHandle = FALSE
    /\ subscribed = FALSE
    /\ notifyPc = "idle"
    /\ primaryInterfaceGuid = NullGuid
    /\ secondaryInterfaceGuid = NullGuid
    /\ timerScheduled = FALSE
    /\ completeEvent = FALSE
    /\ failFast = FALSE
    /\ callerPc = "idle"
    /\ callerArgs = NoArgs
    /\ tickPc = "idle"
    /\ tickI = 0
    /\ pendingSends = {}
    /\ hist = [events |-> 0,              \* events from outside so far
               starts |-> 0,              \* calls of Start
               planned |-> 0,             \* nbDatagramToSend of the last Start
               setEvents |-> 0,           \* SetEvent calls since the last Start succeeded
               started |-> FALSE,         \* the last Start armed the timer
               runs |-> 0,                \* Starts that armed the timer
               runStartSequenceNumber |-> 0,
               overlap |-> FALSE,         \* a callback of before was still executing at Start
               externalStop |-> FALSE,    \* the caller stopped the run
               ticks |-> 0,               \* callbacks of this run that found m_running set
               lastTick |-> [n |-> 0, requeued |-> FALSE, stopped |-> FALSE],
               requeuesNotRunning |-> 0,  \* Schedule calls since m_running was cleared
               sentNotReady |-> {},       \* paths a send was issued on while not Ready
               sentUnprepared |-> {},     \* paths a send was issued on with no receive posted
               primaryFailed |-> FALSE,   \* the last Start threw on the primary's setup
               secondarySeen |-> {},      \* sequence numbers sent or received on the secondary
               outOfBounds |-> FALSE,     \* a completion indexed past the latency array
               primarySent |-> <<>>,      \* sequence numbers sent on the primary, in order
               \* the same run of the primary path with the secondary never Ready
               refSequenceNumber |-> 0, refPrimarySent |-> <<>>, refData |-> Resize(<<>>, 0)]

\* ------------------------------------------------------------ operations
RequestSecondaryWlanConnection ==
    /\ ~failFast
    /\ UNCHANGED notifyPc
    /\ callerPc = "idle"
    /\ ~m_wlanHandle
    /\ m_wlanHandle' = TRUE
    /\ UNCHANGED <<m_running, m_frameRate, m_finalSequenceNumber, m_sequenceNumber,
                   m_latencyData, m_primaryState, m_secondaryState, m_primaryCorruptFrames,
                   m_secondaryCorruptFrames, subscribed, primaryInterfaceGuid,
                   secondaryInterfaceGuid, timerScheduled, completeEvent, failFast, callerPc,
                   callerArgs, tickPc, tickI, pendingSends, hist>>

\* lines 173-177 of Stop: clear the flag, stop the timer, revoke the subscription
StopQuiesce ==
    /\ m_running' = FALSE
    /\ timerScheduled' = FALSE
    /\ subscribed' = FALSE

\* lines 140-166 of Start, after the optional Stop; sec is the secondary state it finds
StartBody(args, primary, sec, h, connectedInterfaceGuid, secondaryAvailable, adapterConnected, outcome, primaryOutcome) ==
    LET nbDatagramToSend ==
            CalculateNumberOfDatagramToSend(args.duration, args.bitRate, c_bufferSize)
        final == m_finalSequenceNumber + nbDatagramToSend
        fresh == [state |-> sec, primaryGuid |-> NullGuid, secondaryGuid |-> NullGuid,
                  failFast |-> FALSE]
        resized == [h EXCEPT !.planned = nbDatagramToSend, !.started = FALSE,
                             !.primaryFailed = (primaryOutcome # "ok"),
                             !.refData = Resize(@, final)]
        c == IF m_wlanHandle
             THEN updateSecondaryInterfaceStatus(fresh, connectedInterfaceGuid,
                                                 secondaryAvailable, adapterConnected, outcome)
             ELSE fresh
    IN /\ m_frameRate' = args.frameRate
       /\ m_finalSequenceNumber' = final
       /\ callerPc' = "idle"
       /\ callerArgs' = NoArgs
       /\ UNCHANGED <<m_sequenceNumber, m_primaryCorruptFrames, m_secondaryCorruptFrames,
                      m_wlanHandle, tickPc, tickI, pendingSends>>
       /\ IF final < 0
          THEN \* resize(static_cast<size_t>(-1)) throws std::length_error out of Start
               /\ m_primaryState' = primary
               /\ m_secondaryState' = sec
               /\ hist' = [h EXCEPT !.planned = nbDatagramToSend, !.primaryFailed = FALSE]
               /\ UNCHANGED <<m_latencyData, primaryInterfaceGuid, secondaryInterfaceGuid,
                              failFast, m_running, timerScheduled, subscribed>>
          ELSE /\ m_latencyData' = Resize(m_latencyData, final)
               /\ IF primaryOutcome # "ok"
                  THEN \* Setup or CheckConnectivity of the primary throws out of Start
                       /\ m_primaryState' = IF primaryOutcome = "connectivityFails"
                                            THEN Setup(primary, NullGuid) ELSE primary
                       /\ m_secondaryState' = sec
                       /\ hist' = resized
                       /\ UNCHANGED <<primaryInterfaceGuid, secondaryInterfaceGuid, failFast,
                                      m_running, timerScheduled, subscribed>>
                  ELSE /\ m_secondaryState' = c.state
                       /\ primaryInterfaceGuid' = IF m_wlanHandle THEN c.primaryGuid ELSE primaryInterfaceGuid
                       /\ secondaryInterfaceGuid' = IF m_wlanHandle THEN c.secondaryGuid ELSE secondaryInterfaceGuid
                       /\ failFast' = c.failFast
                       /\ IF c.failFast
                          THEN /\ m_primaryState' = Setup(primary, NullGuid)
                               /\ hist' = resized
                               /\ UNCHANGED <<m_running, timerScheduled, subscribed>>
                          ELSE /\ m_primaryState' = [PrepareToReceive(Setup(primary, NullGuid))
                                                        EXCEPT !.m_adapterStatus = "Ready"]
                               /\ hist' = [resized EXCEPT !.started = TRUE,
                                                    !.runs = @ + 1,
                                                    !.setEvents = 0,
                                                    !.requeuesNotRunning = 0,
                                                    !.runStartSequenceNumber = m_sequenceNumber,
                                                    !.overlap = (tickPc # "idle"),
                                                    !.externalStop = FALSE,
                                                    !.ticks = 0,
                                                    !.lastTick = [n |-> 0, requeued |-> FALSE, stopped |-> FALSE]]
                               /\ subscribed' = IF m_wlanHandle THEN TRUE ELSE subscribed
                               /\ m_running' = TRUE
                               /\ timerScheduled' = TRUE

PrimaryOutcomes == {"ok", "setupFails", "connectivityFails"}

\* what the interface monitor and the network answer during one notification
MonitorAnswers ==
    [connectedInterfaceGuid : PrimaryGuids, secondaryAvailable : BOOLEAN,
     adapterConnected : BOOLEAN, outcome : SetupOutcomes]

\* the answers that matter to a Start: none is asked for without the wlan handle, and
\* the primary interface a Start finds is the one named 1
StartInputs ==
    {in \in [primaryOutcome : PrimaryOutcomes, monitor : MonitorAnswers] :
        /\ in.monitor.connectedInterfaceGuid = 1
        /\ (m_wlanHandle /\ in.primaryOutcome = "ok")
             \/ in.monitor = [connectedInterfaceGuid |-> 1, secondaryAvailable |-> FALSE,
                              adapterConnected |-> FALSE, outcome |-> "ok"]}

\* Start, lines 132-167: called while not running it runs to its end; called while
\* running it first enters Stop, whose Sleep lets the other threads run
Start(bitRate, frameRate, duration) ==
    /\ ~failFast
    /\ UNCHANGED notifyPc
    /\ callerPc = "idle"
    /\ hist.events < MaxEvents
    /\ m_finalSequenceNumber
         + CalculateNumberOfDatagramToSend(duration, bitRate, c_bufferSize) <= MaxFinal
    /\ IF m_running
       THEN /\ StopQuiesce
            /\ callerPc' = "StartStop"
            /\ callerArgs' = [bitRate |-> bitRate, frameRate |-> frameRate, duration |-> duration]
            /\ hist' = [hist EXCEPT !.events = @ + 1, !.starts = @ + 1, !.externalStop = TRUE]
            /\ UNCHANGED <<m_frameRate, m_finalSequenceNumber, m_sequenceNumber, m_latencyData,
                           m_primaryState, m_secondaryState, m_primaryCorruptFrames,
                           m_secondaryCorruptFrames, m_wlanHandle, primaryInterfaceGuid,
                           secondaryInterfaceGuid, completeEvent, failFast, tickPc, tickI,
                           pendingSends>>
       ELSE /\ notifyPc = "idle"
            /\ UNCHANGED completeEvent
            /\ \E in \in StartInputs :
                  StartBody([bitRate |-> bitRate, frameRate |-> frameRate, duration |-> duration],
                            m_primaryState, m_secondaryState,
                            [hist EXCEPT !.events = @ + 1, !.starts = @ + 1],
                            in.monitor.connectedInterfaceGuid, in.monitor.secondaryAvailable,
                            in.monitor.adapterConnected, in.monitor.outcome, in.primaryOutcome)

\* the rest of the Stop that Start called (lines 183-187), then lines 140-166
StartAfterStop ==
    /\ ~failFast
    /\ UNCHANGED notifyPc
    /\ callerPc = "StartStop"
    /\ notifyPc = "idle"
    /\ completeEvent' = TRUE
    /\ \E in \in StartInputs :
          StartBody(callerArgs, Cancel(m_primaryState), Cancel(m_secondaryState),
                    [hist EXCEPT !.setEvents = @ + 1],
                    in.monitor.connectedInterfaceGuid, in.monitor.secondaryAvailable,
                    in.monitor.adapterConnected, in.monitor.outcome, in.primaryOutcome)

\* Stop called by the external caller, lines 169-188, up to the Sleep
Stop ==
    /\ ~failFast
    /\ UNCHANGED notifyPc
    /\ callerPc = "idle"
    /\ hist.events < MaxEvents
    /\ StopQuiesce
    /\ callerPc' = "Stop"
    /\ hist' = [hist EXCEPT !.events = @ + 1, !.externalStop = TRUE]
    /\ UNCHANGED <<m_frameRate, m_finalSequenceNumber, m_sequenceNumber, m_latencyData,
                   m_primaryState, m_secondaryState, m_primaryCorruptFrames,
                   m_secondaryCorruptFrames, m_wlanHandle, primaryInterfaceGuid,
                   secondaryInterfaceGuid, completeEvent, failFast, callerArgs, tickPc, tickI,
                   pendingSends>>

\* lines 183-187 of Stop: close the sockets, signal the event
StopCancel ==
    /\ m_primaryState' = Cancel(m_primaryState)
    /\ m_secondaryState' = Cancel(m_secondaryState)
    /\ completeEvent' = TRUE

StopFinish ==
    /\ ~failFast
    /\ UNCHANGED notifyPc
    /\ callerPc = "Stop"
    /\ StopCancel
    /\ callerPc' = "idle"
    /\ hist' = [hist EXCEPT !.setEvents = @ + 1]
    /\ UNCHANGED <<m_running, m_frameRate, m_finalSequenceNumber, m_sequenceNumber,
                   m_latencyData, m_primaryCorruptFrames, m_secondaryCorruptFrames,
                   m_wlanHandle, subscribed, primaryInterfaceGuid, secondaryInterfaceGuid,
                   timerScheduled, failFast, callerArgs, tickPc, tickI, pendingSends>>

\* MeasuredSocket::SendDatagram: the send is issued on the path's socket; its
\* completion is delivered later when the socket is open
SendDatagram(state, interface, sequenceNumber, pending) ==
    IF state.m_socket THEN pending \cup {<<interface, sequenceNumber>>} ELSE pending

\* the paths SendDatagrams issues a send on, lines 231-237
PathsSentOn(secondaryState) ==
    IF SecondaryInUse(secondaryState) THEN {"Primary", "Secondary"} ELSE {"Primary"}

StateOf(interface) ==
    IF interface = "Primary" THEN m_primaryState ELSE m_secondaryState

\* SendDatagrams, lines 229-240
SendDatagrams ==
    LET paths == PathsSentOn(m_secondaryState)
        afterPrimary == SendDatagram(m_primaryState, "Primary", m_sequenceNumber, pendingSends)
    IN /\ pendingSends' = IF "Secondary" \in paths
                          THEN SendDatagram(m_secondaryState, "Secondary", m_sequenceNumber,
                                            afterPrimary)
                          ELSE afterPrimary
       /\ m_sequenceNumber' = NextSequenceNumber(m_sequenceNumber, m_secondaryState)
       /\ hist' = [hist EXCEPT
                     !.sentNotReady = @ \cup {p \in paths : StateOf(p).m_adapterStatus # "Ready"
                                                            \/ ~StateOf(p).m_socket},
                     !.sentUnprepared = @ \cup {p \in paths : ~StateOf(p).m_receivePosted},
                     !.secondarySeen = IF "Secondary" \in paths
                                       THEN @ \cup {m_sequenceNumber} ELSE @,
                     !.primarySent = Append(@, m_sequenceNumber),
                     !.refPrimarySent = Append(@, hist.refSequenceNumber),
                     !.refSequenceNumber = NextSequenceNumber(@, MeasuredSocket)]

\* TimerCallback, lines 204-209: the timer fires and the callback reads m_running
TimerFire ==
    /\ ~failFast
    /\ UNCHANGED notifyPc
    /\ timerScheduled
    /\ tickPc = "idle"
    /\ timerScheduled' = FALSE
    /\ tickI' = 0
    /\ tickPc' = IF CallbackProceeds(m_running) THEN "loop" ELSE "idle"
    /\ hist' = IF CallbackProceeds(m_running) THEN [hist EXCEPT !.ticks = @ + 1] ELSE hist
    /\ UNCHANGED <<m_running, m_frameRate, m_finalSequenceNumber, m_sequenceNumber,
                   m_latencyData, m_primaryState, m_secondaryState, m_primaryCorruptFrames,
                   m_secondaryCorruptFrames, m_wlanHandle, subscribed, primaryInterfaceGuid,
                   secondaryInterfaceGuid, completeEvent, failFast, callerPc, callerArgs,
                   pendingSends>>

\* one iteration of the loop of lines 211-214
TimerLoop ==
    /\ ~failFast
    /\ UNCHANGED notifyPc
    /\ tickPc = "loop"
    /\ LoopCondition(tickI, m_frameRate, m_sequenceNumber, m_finalSequenceNumber)
    /\ SendDatagrams
    /\ tickI' = tickI + 1
    /\ UNCHANGED <<m_running, m_frameRate, m_finalSequenceNumber, m_latencyData,
                   m_primaryState, m_secondaryState, m_primaryCorruptFrames,
                   m_secondaryCorruptFrames, m_wlanHandle, subscribed, primaryInterfaceGuid,
                   secondaryInterfaceGuid, timerScheduled, completeEvent, failFast, callerPc,
                   callerArgs, tickPc>>

\* lines 216-226 when the timer is requeued
TimerRequeue ==
    /\ ~failFast
    /\ UNCHANGED notifyPc
    /\ tickPc = "loop"
    /\ ~LoopCondition(tickI, m_frameRate, m_sequenceNumber, m_finalSequenceNumber)
    /\ RequeueCondition(m_sequenceNumber, m_finalSequenceNumber)
    /\ timerScheduled' = TRUE
    /\ tickPc' = "idle"
    /\ hist' = [hist EXCEPT !.lastTick = [n |-> hist.ticks, requeued |-> TRUE, stopped |-> FALSE],
                             !.requeuesNotRunning = IF m_running THEN @ ELSE @ + 1]
    /\ UNCHANGED <<m_running, m_frameRate, m_finalSequenceNumber, m_sequenceNumber,
                   m_latencyData, m_primaryState, m_secondaryState, m_primaryCorruptFrames,
                   m_secondaryCorruptFrames, m_wlanHandle, subscribed, primaryInterfaceGuid,
                   secondaryInterfaceGuid, completeEvent, failFast, callerPc, callerArgs,
                   tickI, pendingSends>>

\* lines 221-226: the final sequence number is reached, the callback enters Stop
TimerStop ==
    /\ ~failFast
    /\ UNCHANGED notifyPc
    /\ tickPc = "loop"
    /\ ~LoopCondition(tickI, m_frameRate, m_sequenceNumber, m_finalSequenceNumber)
    /\ ~RequeueCondition(m_sequenceNumber, m_finalSequenceNumber)
    /\ hist' = [hist EXCEPT !.lastTick = [n |-> hist.ticks, requeued |-> FALSE, stopped |-> TRUE]]
    /\ IF m_sequenceNumber > m_finalSequenceNumber
       THEN /\ failFast' = TRUE
            /\ UNCHANGED <<m_running, timerScheduled, subscribed, tickPc>>
       ELSE /\ StopQuiesce
            /\ tickPc' = "stop"
            /\ UNCHANGED failFast
    /\ UNCHANGED <<m_frameRate, m_finalSequenceNumber, m_sequenceNumber, m_latencyData,
                   m_primaryState, m_secondaryState, m_primaryCorruptFrames,
                   m_secondaryCorruptFrames, m_wlanHandle, primaryInterfaceGuid,
                   secondaryInterfaceGuid, completeEvent, callerPc, callerArgs, tickI,
                   pendingSends>>

\* the rest of the Stop the callback called, lines 183-187
TimerStopFinish ==
    /\ ~failFast
    /\ UNCHANGED notifyPc
    /\ tickPc = "stop"
    /\ StopCancel
    /\ tickPc' = "idle"
    /\ hist' = [hist EXCEPT !.setEvents = @ + 1]
    /\ UNCHANGED <<m_running, m_frameRate, m_finalSequenceNumber, m_sequenceNumber,
                   m_latencyData, m_primaryCorruptFrames, m_secondaryCorruptFrames,
                   m_wlanHandle, subscribed, primaryInterfaceGuid, secondaryInterfaceGuid,
                   timerScheduled, failFast, callerPc, callerArgs, tickI, pendingSends>>

\* SendCompletion, lines 242-255
SendCompletion(interface, sequenceNumber, sendTimestamp) ==
    /\ ~failFast
    /\ UNCHANGED notifyPc
    /\ <<interface, sequenceNumber>> \in pendingSends
    /\ pendingSends' = pendingSends \ {<<interface, sequenceNumber>>}
    /\ IF sequenceNumber \in DOMAIN m_latencyData
       THEN /\ m_latencyData' = [m_latencyData EXCEPT ![sequenceNumber] =
                                    SendCompletionWrite(@, interface, sendTimestamp)]
            /\ hist' = IF interface = "Primary"
                       THEN [hist EXCEPT !.refData[sequenceNumber] =
                                            SendCompletionWrite(@, interface, sendTimestamp)]
                       ELSE hist
       ELSE \* operator[] past the end of the vector
            /\ hist' = [hist EXCEPT !.outOfBounds = TRUE]
            /\ UNCHANGED m_latencyData
    /\ UNCHANGED <<m_running, m_frameRate, m_finalSequenceNumber, m_sequenceNumber,
                   m_primaryState, m_secondaryState, m_primaryCorruptFrames,
                   m_secondaryCorruptFrames, m_wlanHandle, subscribed, primaryInterfaceGuid,
                   secondaryInterfaceGuid, timerScheduled, completeEvent, failFast, callerPc,
                   callerArgs, tickPc, tickI>>

\* StreamClient::ReceiveCompletion, lines 257-286
ReceiveCompletion(interface, result) ==
    IF SequenceNumberOutOfRange(result.m_sequenceNumber, m_finalSequenceNumber)
    THEN /\ IF interface = "Primary"
            THEN /\ m_primaryCorruptFrames' = m_primaryCorruptFrames + 1
                 /\ UNCHANGED m_secondaryCorruptFrames
            ELSE /\ m_secondaryCorruptFrames' = m_secondaryCorruptFrames + 1
                 /\ UNCHANGED m_primaryCorruptFrames
         /\ UNCHANGED m_latencyData
         /\ hist' = [hist EXCEPT !.events = @ + 1]
    ELSE /\ IF result.m_sequenceNumber \in DOMAIN m_latencyData
            THEN /\ m_latencyData' = [m_latencyData EXCEPT ![result.m_sequenceNumber] =
                                         ReceiveCompletionWrite(@, interface, result)]
                 /\ hist' = IF interface = "Primary"
                            THEN [hist EXCEPT !.events = @ + 1,
                                              !.refData[result.m_sequenceNumber] =
                                                 ReceiveCompletionWrite(@, interface, result)]
                            ELSE [hist EXCEPT !.events = @ + 1,
                                              !.secondarySeen = @ \cup {result.m_sequenceNumber}]
            ELSE /\ hist' = [hist EXCEPT !.events = @ + 1, !.outOfBounds = TRUE]
                 /\ UNCHANGED m_latencyData
         /\ UNCHANGED <<m_primaryCorruptFrames, m_secondaryCorruptFrames>>

\* the receive handler of the path's socket: a frame shorter than the header is
\* counted by the socket and not parsed, any other is handed to ReceiveCompletion
Receive(interface, completedBytes, result) ==
    /\ ~failFast
    /\ UNCHANGED notifyPc
    /\ StateOf(interface).m_receivePosted
    /\ hist.events < MaxEvents
    /\ IF ValidateBufferLength(completedBytes)
       THEN /\ ReceiveCompletion(interface, result)
            /\ UNCHANGED <<m_primaryState, m_secondaryState>>
       ELSE /\ IF interface = "Primary"
               THEN /\ m_primaryState' = [m_primaryState EXCEPT !.m_corruptFrames = @ + 1]
                    /\ UNCHANGED m_secondaryState
               ELSE /\ m_secondaryState' = [m_secondaryState EXCEPT !.m_corruptFrames = @ + 1]
                    /\ UNCHANGED m_primaryState
            /\ hist' = [hist EXCEPT !.events = @ + 1]
            /\ UNCHANGED <<m_latencyData, m_primaryCorruptFrames, m_secondaryCorruptFrames>>
    /\ UNCHANGED <<m_running, m_frameRate, m_finalSequenceNumber, m_sequenceNumber,
                   m_wlanHandle, subscribed, primaryInterfaceGuid, secondaryInterfaceGuid,
                   timerScheduled, completeEvent, failFast, callerPc, callerArgs, tickPc,
                   tickI, pendingSends>>

\* NetworkStatusChanged is raised: the subscribed handler is invoked, lines 126-129;
\* revoking the subscription does not take back an invocation already made
NetworkStatusRaised ==
    /\ ~failFast
    /\ subscribed
    /\ notifyPc = "idle"
    /\ hist.events < MaxEvents
    /\ notifyPc' = "raised"
    /\ hist' = [hist EXCEPT !.events = @ + 1]
    /\ UNCHANGED <<m_running, m_frameRate, m_finalSequenceNumber, m_sequenceNumber,
                   m_latencyData, m_primaryState, m_secondaryState, m_primaryCorruptFrames,
                   m_secondaryCorruptFrames, m_wlanHandle, subscribed, primaryInterfaceGuid,
                   secondaryInterfaceGuid, timerScheduled, completeEvent, failFast, callerPc,
                   callerArgs, tickPc, tickI, pendingSends>>

\* the invoked handler runs updateSecondaryInterfaceStatus, lines 60-120
NetworkStatusChanged(connectedInterfaceGuid, secondaryAvailable, adapterConnected, outcome) ==
    /\ ~failFast
    /\ notifyPc = "raised"
    /\ notifyPc' = "idle"
    /\ UNCHANGED hist
    /\ LET c == updateSecondaryInterfaceStatus(
                    [state |-> m_secondaryState, primaryGuid |-> primaryInterfaceGuid,
                     secondaryGuid |-> secondaryInterfaceGuid, failFast |-> FALSE],
                    connectedInterfaceGuid, secondaryAvailable, adapterConnected, outcome)
       IN /\ m_secondaryState' = c.state
          /\ primaryInterfaceGuid' = c.primaryGuid
          /\ secondaryInterfaceGuid' = c.secondaryGuid
          /\ failFast' = c.failFast
    /\ UNCHANGED <<m_running, m_frameRate, m_finalSequenceNumber, m_sequenceNumber,
                   m_latencyData, m_primaryState, m_primaryCorruptFrames,
                   m_secondaryCorruptFrames, m_wlanHandle, subscribed, timerScheduled,
                   completeEvent, callerPc, callerArgs, tickPc, tickI, pendingSends>>

\* PrintStatistics, lines 195-196: the corrupt-frame count it prints for a path
PrintStatistics(interface) ==
    StateOf(interface).m_corruptFrames

Next ==
    \/ RequestSecondaryWlanConnection
    \/ \E b \in BitRates, f \in FrameRates, d \in Durations : Start(b, f, d)
    \/ StartAfterStop
    \/ Stop
    \/ StopFinish
    \/ TimerFire
    \/ TimerLoop
    \/ TimerRequeue
    \/ TimerStop
    \/ TimerStopFinish
    \/ \E p \in pendingSends, t \in SendTimestamps : SendCompletion(p[1], p[2], t)
    \/ \E i \in Interfaces, b \in CompletedBytes, r \in ReceiveResults : Receive(i, b, r)
    \/ NetworkStatusRaised
    \/ \E m \in MonitorAnswers :
          NetworkStatusChanged(m.connectedInterfaceGuid, m.secondaryAvailable,
                               m.adapterConnected, m.outcome)

Spec == Init /\ [][Next]_vars

\* the thread pool runs a due callback and lets it go on to its end; the Sleep of
\* Stop returns and the Start that called Stop goes on
FairSpec ==
    /\ Spec
    /\ WF_vars(TimerFire)
    /\ WF_vars(TimerLoop)
    /\ WF_vars(TimerRequeue)
    /\ WF_vars(TimerStop)
    /\ WF_vars(TimerStopFinish)
    /\ WF_vars(StopFinish)
    /\ WF_vars(StartAfterStop)

\* ----------------------------------------------------------------- claims
SendCompletionOf(i) ==
    \E p \in Interfaces, t \in SendTimestamps : SendCompletion(p, i, t)

ReceiveOf(i) ==
    \E p \in Interfaces, b \in CompletedBytes, r \in ReceiveResults :
        r.m_sequenceNumber = i /\ Receive(p, b, r)

\* C1: the latency array holds one record per sequence number of [0, final); a record
\* at index i changes only in a step that is a send or receive completion carrying
\* sequence number i, and no completion indexes the array outside [0, final).
C1_RecordsWrittenByOwnCompletions ==
    /\ [](DOMAIN m_latencyData = 0 .. m_finalSequenceNumber - 1 /\ ~hist.outOfBounds)
    /\ [][/\ \A i \in DOMAIN m_latencyData :
                /\ i \in DOMAIN m_latencyData'
                /\ m_latencyData'[i] # m_latencyData[i] => SendCompletionOf(i) \/ ReceiveOf(i)
          /\ \A q \in pendingSends : q[2] \in 0 .. m_finalSequenceNumber - 1]_vars

\* C1 witness: a send completion and a receive completion have each written their record
C1_Witness ==
    \E i, j \in DOMAIN m_latencyData :
        /\ m_latencyData[i].m_primarySendTimestamp \in SendTimestamps
        /\ m_latencyData[j].m_secondaryReceiveTimestamp \in ReceiveTimestamps

CorruptFramesOf(interface) ==
    IF interface = "Primary" THEN m_primaryCorruptFrames ELSE m_secondaryCorruptFrames

\* C2: a receive completion on either path whose decoded sequence number is negative
\* or >= finalSequenceNumber adds exactly one to that path's corrupt-frame counter,
\* leaves the other path's counter alone and leaves every latency record unchanged.
C2_OutOfRangeCountedNotStored ==
    [][\A p \in Interfaces, b \in CompletedBytes, r \in ReceiveResults :
          (/\ b >= c_datagramHeaderLength
           /\ r.m_sequenceNumber < 0 \/ r.m_sequenceNumber >= m_finalSequenceNumber
           /\ Receive(p, b, r))
          => /\ CorruptFramesOf(p)' = CorruptFramesOf(p) + 1
             /\ \A q \in Interfaces \ {p} : CorruptFramesOf(q)' = CorruptFramesOf(q)
             /\ m_latencyData' = m_latencyData
             /\ ~hist'.outOfBounds]_vars

\* C2 witness: the secondary path has counted an out-of-range frame while records exist
C2_Witness ==
    /\ m_secondaryCorruptFrames = 1
    /\ m_finalSequenceNumber >= 1

\* C3: a receive completion of fewer bytes than the 24-byte header (23 among them) is
\* not parsed: the receiving path's socket counts one corrupt frame and no latency
\* record nor any other counter changes; with 24 bytes or more the length check
\* accepts the frame and the socket's counter stays.
C3_ShortFrameCountedNotParsed ==
    [][\A p \in Interfaces, b \in CompletedBytes, r \in ReceiveResults :
          Receive(p, b, r)
          => IF b < c_datagramSequenceNumberLength + 2 * c_datagramTimestampLength
             THEN /\ StateOf(p)'.m_corruptFrames = StateOf(p).m_corruptFrames + 1
                  /\ m_latencyData' = m_latencyData
                  /\ m_primaryCorruptFrames' = m_primaryCorruptFrames
                  /\ m_secondaryCorruptFrames' = m_secondaryCorruptFrames
             ELSE /\ StateOf(p)'.m_corruptFrames = StateOf(p).m_corruptFrames
                  /\ \/ CorruptFramesOf(p)' = CorruptFramesOf(p) + 1
                     \/ m_latencyData'[r.m_sequenceNumber].m_primaryReceiveTimestamp
                           = r.m_receiveTimestamp
                     \/ m_latencyData'[r.m_sequenceNumber].m_secondaryReceiveTimestamp
                           = r.m_receiveTimestamp]_vars

\* C3 witness: the primary socket has counted a short frame while records exist
C3_Witness ==
    /\ m_primaryState.m_corruptFrames = 1
    /\ m_finalSequenceNumber >= 1

Ceil(a, b) ==
    (a + b - 1) \div b

Max(a, b) ==
    IF a >= b THEN a ELSE b

\* a run that started, was not stopped from outside, and began with no callback of an
\* earlier run still executing; lastTick is the last tick of it that ran to its end
UndisturbedRun ==
    hist.started /\ ~hist.externalStop /\ ~hist.overlap /\ hist.lastTick.n > 0

C5_FinalIsComputedCount ==
    (hist.starts = 1 /\ hist.started)
    => /\ m_finalSequenceNumber = hist.planned
       /\ (UndisturbedRun /\ hist.lastTick.stopped)
            => hist.primarySent = [i \in 1 .. hist.planned |-> i - 1]

\* C6 as stated: between two starts of a run, however many times Stop is called one
\* after the other (by the timer callback or by the caller), the completion event is
\* signalled once only.
C6_StopSignalsOnce ==
    hist.setEvents <= 1

PrimaryFields(stat) ==
    <<stat.m_primarySendTimestamp, stat.m_primaryEchoTimestamp, stat.m_primaryReceiveTimestamp>>

SecondaryFields(stat) ==
    <<stat.m_secondarySendTimestamp, stat.m_secondaryEchoTimestamp,
      stat.m_secondaryReceiveTimestamp>>

\* C7: against the same execution with the secondary path never Ready (same calls,
\* ticks and primary completions), the sequence of sequence numbers sent on the primary
\* path, the sequence counter and the primary send/echo/receive fields of every record
\* are identical, whatever status changes the notifications give the secondary; and
\* the secondary fields of a record are unset when its sequence number was sent while
\* the secondary was not Ready (and no frame carrying it arrived on the secondary).
C7_DualPathIndependence ==
    /\ hist.primarySent = hist.refPrimarySent
    /\ m_sequenceNumber = hist.refSequenceNumber
    /\ DOMAIN m_latencyData = DOMAIN hist.refData
    /\ \A i \in DOMAIN m_latencyData :
          /\ PrimaryFields(m_latencyData[i]) = PrimaryFields(hist.refData[i])
          /\ i \notin hist.secondarySeen
               => SecondaryFields(m_latencyData[i]) = <<Unset, Unset, Unset>>

\* C7 witness: sequence number 0 went out on both paths, the secondary then lost Ready
\* and sequence number 1 went out on the primary alone; the primary record 0 is written
C7_Witness ==
    /\ hist.primarySent = <<0, 1>>
    /\ hist.secondarySeen = {0}
    /\ m_latencyData[0].m_primarySendTimestamp \in SendTimestamps
    /\ m_latencyData[0].m_secondarySendTimestamp \in SendTimestamps
    /\ SecondaryFields(m_latencyData[1]) = <<Unset, Unset, Unset>>

\* C8 as stated: no send is issued on a path whose status is not Ready, or whose socket
\* has been cancelled, at the moment the send is issued.
C8_NoSendOnNotReadyPath ==
    hist.sentNotReady = {}

Quiescent ==
    ~timerScheduled /\ tickPc = "idle"

\* C9: a tick that reads the running flag as false sends no datagram, leaves the
\* sequence counter alone and does not re-arm the timer; once Stop has cleared the
\* flag the timer is re-armed at most once, by the tick that had already passed its
\* check; and from any state with the flag cleared the scheduler comes to rest (no
\* timer armed, no callback executing) unless a new run starts or the process fails.
C9_StoppedTickIsInert ==
    /\ [][(TimerFire /\ ~m_running)
            => /\ pendingSends' = pendingSends
               /\ m_sequenceNumber' = m_sequenceNumber
               /\ ~timerScheduled'
               /\ tickPc' = "idle"]_vars
    /\ [](hist.requeuesNotRunning <= 1)
    /\ (~m_running) ~> (m_running \/ failFast \/ Quiescent)

\* C9 witness: one Start and one Stop; the tick in flight at the Stop re-armed the
\* timer, the next tick read the cleared flag and left the scheduler at rest
C9_Witness ==
    /\ hist.starts = 1 /\ hist.events = 2
    /\ ~m_running
    /\ hist.requeuesNotRunning = 1
    /\ Quiescent
    /\ m_sequenceNumber < m_finalSequenceNumber

\* C10 as stated: a send completion of a path writes only that path's send timestamp
\* of its record, and a receive completion leaves both send timestamps of every record
\* as they were, so that no field has both kinds of completion as writers.
C10_SingleWriterPerField ==
    [][/\ \A p \in Interfaces, b \in CompletedBytes, r \in ReceiveResults :
             Receive(p, b, r)
             => \A i \in DOMAIN m_latencyData :
                   /\ m_latencyData'[i].m_primarySendTimestamp
                        = m_latencyData[i].m_primarySendTimestamp
                   /\ m_latencyData'[i].m_secondarySendTimestamp
                        = m_latencyData[i].m_secondarySendTimestamp
       /\ \A q \in pendingSends, t \in SendTimestamps :
             SendCompletion(q[1], q[2], t)
             => \A i \in DOMAIN m_latencyData :
                   /\ m_latencyData'[i].m_primaryEchoTimestamp
                        = m_latencyData[i].m_primaryEchoTimestamp
                   /\ m_latencyData'[i].m_primaryReceiveTimestamp
                        = m_latencyData[i].m_primaryReceiveTimestamp
                   /\ m_latencyData'[i].m_secondaryEchoTimestamp
                        = m_latencyData[i].m_secondaryEchoTimestamp
                   /\ m_latencyData'[i].m_secondaryReceiveTimestamp
                        = m_latencyData[i].m_secondaryReceiveTimestamp]_vars

\* C11: the sequence counter never decreases; a step that emits a frame (one call of
\* SendDatagrams) adds exactly one to it and every send it issues, on the primary or
\* on both paths, carries the counter's value before the step; no other step changes
\* the counter; and no sequence number is emitted twice.
C11_OneSequenceNumberPerEmission ==
    /\ [][/\ m_sequenceNumber' >= m_sequenceNumber
          /\ IF TimerLoop
             THEN /\ m_sequenceNumber' = m_sequenceNumber + 1
                  /\ pendingSends' \ pendingSends
                       \subseteq {<<p, m_sequenceNumber>> : p \in PathsSentOn(m_secondaryState)}
                  /\ hist'.primarySent = Append(hist.primarySent, m_sequenceNumber)
             ELSE /\ m_sequenceNumber' = m_sequenceNumber
                  /\ pendingSends' \subseteq pendingSends]_vars
    /\ [](\A i, j \in 1 .. Len(hist.primarySent) :
             i < j => hist.primarySent[i] < hist.primarySent[j])

\* C11 witness: frame 0 went out on both paths under one sequence number and the
\* counter stands at one
C11_Witness ==
    /\ m_sequenceNumber = 1
    /\ {<<"Primary", 0>>, <<"Secondary", 0>>} \subseteq pendingSends

Notified(m) ==
    NetworkStatusChanged(m.connectedInterfaceGuid, m.secondaryAvailable,
                         m.adapterConnected, m.outcome)

StartStep ==
    (\E b \in BitRates, f \in FrameRates, d \in Durations : Start(b, f, d)) \/ StartAfterStop

\* C12: a notification that finds the secondary Connecting with its interface reported
\* connected makes it Ready, with an open socket and posted receives, when Setup,
\* CheckConnectivity and PrepareToReceive succeed, and leaves it Connecting with its
\* socket cancelled when the attempt fails as not connected; the secondary becomes
\* Ready in no other way than a successful attempt of a notification or of the
\* initial update of Start.
C12_ReadyOnlyAfterSuccessfulAttempt ==
    [][/\ \A m \in MonitorAnswers :
             (Notified(m) /\ m_secondaryState.m_adapterStatus = "Connecting"
                          /\ m.adapterConnected)
             => /\ m.outcome = "ok"
                     => /\ m_secondaryState'.m_adapterStatus = "Ready"
                        /\ m_secondaryState'.m_socket
                        /\ m_secondaryState'.m_receivePosted
                /\ m.outcome = "notConnected"
                     => /\ m_secondaryState'.m_adapterStatus = "Connecting"
                        /\ ~m_secondaryState'.m_socket
       /\ (m_secondaryState.m_adapterStatus # "Ready"
             /\ m_secondaryState'.m_adapterStatus = "Ready")
            => /\ m_wlanHandle
               /\ m_secondaryState'.m_socket /\ m_secondaryState'.m_receivePosted
               /\ \/ StartStep
                  \/ \E m \in MonitorAnswers :
                        m.adapterConnected /\ m.outcome = "ok" /\ Notified(m)]_vars

\* C12 witness: the secondary is Connecting again after an attempt that bound a socket
\* to its interface and found the server unreachable
C12_Witness ==
    /\ m_secondaryState.m_adapterStatus = "Connecting"
    /\ m_secondaryState.m_interfaceGuid # NullGuid
    /\ ~m_secondaryState.m_socket
    /\ ~m_secondaryState.m_receivePosted

\* C13 as stated: an attempt on the secondary that fails because Setup cannot bind the
\* interface (a failure other than not connected) does not terminate the process, does
\* not stop the run or close the primary, and leaves the secondary Connecting for a
\* later retry.
C13_BindFailureRecoverable ==
    [][\A m \in MonitorAnswers :
          (Notified(m) /\ m_secondaryState.m_adapterStatus = "Connecting"
                       /\ m.adapterConnected /\ m.outcome = "otherFailure")
          => /\ ~failFast'
             /\ m_running' = m_running
             /\ m_primaryState' = m_primaryState
             /\ m_secondaryState'.m_adapterStatus = "Connecting"]_vars

\* C14 as stated: when Setup or CheckConnectivity of the primary throws out of Start,
\* the running flag is false afterwards, that Start neither marks the primary Ready nor
\* arms the timer, and from then on, until another Start, no datagram is sent.
C14_PrimaryFailureSendsNothing ==
    /\ [](hist.primaryFailed => ~m_running)
    /\ [][/\ (StartStep /\ hist'.primaryFailed)
               => /\ m_primaryState'.m_adapterStatus = "Ready"
                       => m_primaryState.m_adapterStatus = "Ready"
                  /\ timerScheduled' => timerScheduled
          /\ (hist.primaryFailed /\ hist'.primaryFailed)
               => hist'.primarySent = hist.primarySent]_vars

\* C15 as stated: no send is issued on a path whose current socket has no receive
\* posted; a step that marks a path Ready leaves it with an open socket and its
\* receives posted, and a Start that arms the timer has posted the primary's receives.
C15_SendsAfterPrepareToReceive ==
    /\ [](hist.sentUnprepared = {})
    /\ [][/\ \A p \in Interfaces :
                (StateOf(p).m_adapterStatus # "Ready" /\ StateOf(p)'.m_adapterStatus = "Ready")
                => StateOf(p)'.m_socket /\ StateOf(p)'.m_receivePosted
          /\ (StartStep /\ timerScheduled')
                => m_primaryState'.m_receivePosted \/ ~m_running']_vars

\* C16 as stated: the corrupt-frame count PrintStatistics reports for a path is the
\* number of frames rejected on that path, the undersized ones and the ones whose
\* sequence number is out of range.
C16_ReportedCorruptFrames ==
    \A p \in Interfaces :
        PrintStatistics(p) = StateOf(p).m_corruptFrames + CorruptFramesOf(p)

\* C17 as stated, for a notification that finds another primary interface than the one
\* recorded: afterwards the secondary is Connecting or Ready only if a candidate exists
\* for the new primary, the recorded secondary interface is then that candidate, and a
\* socket the notification leaves open is bound to it.
C17_SecondaryFollowsPrimary ==
    [][\A m \in MonitorAnswers :
          (Notified(m) /\ m.connectedInterfaceGuid # primaryInterfaceGuid /\ ~failFast')
          => /\ m_secondaryState'.m_adapterStatus \in {"Connecting", "Ready"}
                  => /\ m.secondaryAvailable
                     /\ secondaryInterfaceGuid' = SecondaryOf(m.connectedInterfaceGuid)
             /\ m_secondaryState'.m_socket
                  => m_secondaryState'.m_interfaceGuid = SecondaryOf(m.connectedInterfaceGuid)]_vars

C19_StoppedSecondaryStaysDown ==
    (hist.setEvents >= 1 /\ ~failFast)
    => ~(m_secondaryState.m_adapterStatus = "Ready" /\ m_secondaryState.m_socket)

\* C20 as stated: a Start that gets a run going after an earlier run leaves the client
\* as a first Start on a fresh client would: the final sequence number is the one a
\* fresh client computes from the new bit rate and duration alone, the latency array
\* has that many records, and the run counts its sequence numbers from 0.
C20_RestartLikeFreshStart ==
    (hist.started /\ hist.runs >= 2 /\ hist.planned >= 1)
    => /\ m_finalSequenceNumber = -1 + hist.planned
       /\ DOMAIN m_latencyData = 0 .. (-1 + hist.planned) - 1
       /\ hist.runStartSequenceNumber = 0

\* C21: the fail-fast of the timer callback never fires: whenever a callback that found
\* the run going is executing, and in particular when it decides not to re-arm the
\* timer, the sequence counter is at most the final sequence number, whatever counts
\* (zero and one among them) the Starts so far have planned.
C21_FailFastNeverFires ==
    /\ [](tickPc # "idle" => m_sequenceNumber <= m_finalSequenceNumber)
    /\ [][TimerStop => m_sequenceNumber <= m_finalSequenceNumber /\ ~failFast']_vars

\* C21 witness: a run whose Start planned zero datagrams, after an earlier run, decided
\* on its first tick not to re-arm the timer, with the counter at the final number
C21_Witness ==
    /\ hist.started /\ hist.runs >= 2 /\ hist.planned = 0
    /\ hist.lastTick.stopped
    /\ m_sequenceNumber = m_finalSequenceNumber
    /\ ~failFast

====
